---- MODULE Spec2Model ----
(***************************************************************************)
(* Bill-splitting ledger (Divvy): the bills router of app/controllers,     *)
(* its split policies (by_item, equally, manual), the balance calculator   *)
(* and the bill store.                                                     *)
(*                                                                         *)
(* Modelling conventions                                                   *)
(*  - Python floats are modelled as exact rationals [num, den] in lowest   *)
(*    terms; round(x, 2) is round-half-even on the exact value.            *)
(*  - A raw item of the request is a dict: a function whose DOMAIN is the  *)
(*    set of keys present; item.get(k, d) is Get(item, k, d).              *)
(*  - A Participants object is the record [name, user_id, is_guest];       *)
(*    user_id = None is the string NoneId. A bare Python str (a manual     *)
(*    share's user_name, a bare name in split_between) is [str |-> s].     *)
(*  - Documents hold the values the router passes to their constructors.   *)
(*  - ObjectIds are short strings; str(ObjectId) is the string itself.     *)
(***************************************************************************)
EXTENDS Integers, Sequences, FiniteSets, TLC

VARIABLES
    events,   \* the events collection: event id -> Events document
    bills,    \* the bills collection: bill id -> Bills document
    nextId,   \* number of the next bill id the store hands out
    resp,     \* the response of the last request handled
    now,      \* the clock datetime.now(timezone.utc) reads
    tasks,    \* the create_bill coroutines in flight: task number -> its frame
    call,     \* a call of a pure function: its arguments and, once applied, its result
    users,           \* the users collection: user id -> User document
    nextUser,        \* number of the next user id the store hands out
    otp_codes,       \* the otp_codes collection, in insertion order
    refresh_tokens,  \* the refresh_tokens collection, in insertion order
    outbox,          \* the emails handed to the background tasks
    tz               \* hours the server's local time is ahead of UTC

\* The collections and settings of the account routes.
accounts == <<users, nextUser, otp_codes, refresh_tokens, outbox, tz>>
ledger == <<events, bills, nextId, tasks>>
vars == <<events, bills, nextId, resp, now, tasks, call, users, nextUser, otp_codes, refresh_tokens, outbox, tz>>

\* ------------------------------------------------------------------ bounds
\* Bills ever inserted in one behaviour.
MaxBills == 2
\* Items of one generated request.
MaxItems == 2
\* Entries of one generated manual_shares list.
MaxShares == 2

\* ------------------------------------------------------- exact arithmetic
Abs(i) == IF i < 0 THEN -i ELSE i

RECURSIVE GCD(_, _)
GCD(a, b) == IF b = 0 THEN a ELSE GCD(b, a % b)

\* The rational n/d (d > 0) in lowest terms.
Frac(n, d) ==
    LET g == GCD(Abs(n), d)
    IN  IF n = 0 THEN [num |-> 0, den |-> 1] ELSE [num |-> n \div g, den |-> d \div g]

Int2R(i) == [num |-> i, den |-> 1]
Zero == Int2R(0)
RAdd(a, b) == Frac(a.num * b.den + b.num * a.den, a.den * b.den)
RSub(a, b) == Frac(a.num * b.den - b.num * a.den, a.den * b.den)
RMul(a, b) == Frac(a.num * b.num, a.den * b.den)
RDivInt(a, n) == Frac(a.num, a.den * n)
RAbs(a) == [num |-> Abs(a.num), den |-> a.den]
RLe(a, b) == a.num * b.den <= b.num * a.den
RLt(a, b) == a.num * b.den < b.num * a.den

RECURSIVE RSum(_)
RSum(s) == IF s = <<>> THEN Zero ELSE RAdd(Head(s), RSum(Tail(s)))

\* round(amount, 2) of a non-negative amount: to the nearest cent, ties to even.
Round2(a) ==
    LET n == a.num * 100
        q == n \div a.den
        r == n % a.den
        c == IF 2 * r < a.den THEN q
             ELSE IF 2 * r > a.den THEN q + 1
             ELSE IF q % 2 = 0 THEN q ELSE q + 1
    IN  Frac(c, 100)

\* The tolerance 0.01 of the manual policy.
Tolerance == Frac(1, 100)

\* ------------------------------------------------------------ participants
NoneId == "None"
UserIds == {"u1", "u2"}

Participants(name, user_id, is_guest) ==
    [name |-> name, user_id |-> user_id, is_guest |-> is_guest]

\* A bare Python str.
Str(s) == [str |-> s]
IsStr(x) == "str" \in DOMAIN x

Get(item, k, d) == IF k \in DOMAIN item THEN item[k] ELSE d

_participant_key(participant) ==
    IF participant.user_id # NoneId THEN participant.user_id ELSE participant.name

\* An identity test that looks at the keys only.
_is_same_participant_by_key(a, b) == _participant_key(a) = _participant_key(b)

_is_same_participant(a, b) ==
    IF a.user_id # NoneId /\ b.user_id # NoneId THEN a.user_id = b.user_id
    ELSE IF a.user_id = NoneId /\ b.user_id = NoneId THEN a.name = b.name
    ELSE FALSE

\* ------------------------------------------------------- money arithmetic
\* A rounding to one decimal place.
_round_share_one_decimal(amount) == RMul(Round2(RDivInt(amount, 10)), Int2R(10))

_round_share(amount) == Round2(amount)

\* A subtotal that adds up the item totals after rounding each.
RECURSIVE _calculate_subtotal_rounded(_)
_calculate_subtotal_rounded(items) ==
    IF items = <<>> THEN Zero
    ELSE RAdd(Round2(RMul(Int2R(Get(Head(items), "quantity", 1)), Get(Head(items), "unit_price", Zero))),
              _calculate_subtotal_rounded(Tail(items)))

RECURSIVE _calculate_subtotal(_)
_calculate_subtotal(items) ==
    IF items = <<>> THEN Zero
    ELSE RAdd(RMul(Int2R(Get(Head(items), "quantity", 1)), Get(Head(items), "unit_price", Zero)),
              _calculate_subtotal(Tail(items)))

\* A total that leaves the tax out.
_calculate_total_amount_no_tax(subtotal, tax) == subtotal

\* subtotal * (1 + tax / 100), not rounded.
_calculate_total_amount(subtotal, tax) ==
    RMul(subtotal, RAdd(Int2R(1), RDivInt(tax, 100)))

\* ------------------------------------------------------ split policy engine
BY_ITEM == "by_item"
EQUALLY == "equally"
MANUAL == "manual"
BillSplitType == {BY_ITEM, EQUALLY, MANUAL}
ItemSplitType == {"everyone", "custom"}
NoSplit == "None"

\* What a policy hands back to create_bill: a raised HTTPException / exception
\* (status, detail), or the tuple (subtotal, total_amount, items, per_user_shares).
Raise(status, kind, item) ==
    [status |-> status, detail |-> [kind |-> kind, item |-> item],
     subtotal |-> Zero, total_amount |-> Zero, items |-> <<>>, per_user_shares |-> <<>>]

Return(subtotal, total_amount, bill_items, per_user_shares) ==
    [status |-> 200, detail |-> [kind |-> "", item |-> ""],
     subtotal |-> subtotal, total_amount |-> total_amount,
     items |-> bill_items, per_user_shares |-> per_user_shares]

\* uuid-based item ids are modelled by the item's position in the bill.
_generate_item_id(i) == i

BillItem(id, name, quantity, unit_price, total_price, split_type, split_between) ==
    [id |-> id, name |-> name, quantity |-> quantity, unit_price |-> unit_price,
     total_price |-> total_price, split_type |-> split_type, split_between |-> split_between]

UserShare(user_name, share) == [user_name |-> user_name, share |-> share]

\* split_between entries normalised to Participants: an object or dict keeps its
\* fields (absent ones take the class defaults), anything else becomes a guest name.
NormaliseParticipant(p) ==
    IF IsStr(p) THEN Participants(p.str, NoneId, TRUE)
    ELSE Participants(p.name, Get(p, "user_id", NoneId), Get(p, "is_guest", TRUE))

\* An accumulator that keeps only the last amount accrued under a key.
AccrueOverwrite(acc, participant, share_per_person) ==
    LET key == _participant_key(participant)
        idx == {i \in 1..Len(acc) : acc[i].key = key}
    IN  IF idx = {} THEN Append(acc, [key |-> key, participant |-> participant, share |-> share_per_person])
        ELSE [acc EXCEPT ![CHOOSE i \in idx : TRUE] =
                 [key |-> key, participant |-> participant, share |-> share_per_person]]

\* user_shares / participants_map after one more participant of an item: the
\* accumulator is the list of (key, participant, share) in first-insertion order.
Accrue(acc, participant, share_per_person) ==
    LET key == _participant_key(participant)
        idx == {i \in 1..Len(acc) : acc[i].key = key}
    IN  IF idx = {} THEN Append(acc, [key |-> key, participant |-> participant, share |-> share_per_person])
        ELSE [acc EXCEPT ![CHOOSE i \in idx : TRUE] =
                 [key |-> key, participant |-> participant, share |-> RAdd(@.share, share_per_person)]]

RECURSIVE AccrueAll(_, _, _, _)
AccrueAll(acc, participants_list, j, share_per_person) ==
    IF j > Len(participants_list) THEN acc
    ELSE AccrueAll(Accrue(acc, participants_list[j], share_per_person),
                   participants_list, j + 1, share_per_person)

\* The loop over payload.items of _process_by_item, from item i on.
RECURSIVE ByItemLoop(_, _, _, _)
ByItemLoop(items, i, acc, bill_items) ==
    IF i > Len(items) THEN [status |-> 200, acc |-> acc, bill_items |-> bill_items,
                            detail |-> [kind |-> "", item |-> ""]]
    ELSE
      LET item == items[i]
          name == Get(item, "name", "unknown")
      IN  IF "split_between" \notin DOMAIN item \/ Len(Get(item, "split_between", <<>>)) = 0
          THEN [status |-> 400, acc |-> acc, bill_items |-> bill_items,
                detail |-> [kind |-> "split_between", item |-> name]]
          ELSE IF "split_type" \notin DOMAIN item
          THEN [status |-> 400, acc |-> acc, bill_items |-> bill_items,
                detail |-> [kind |-> "split_type", item |-> name]]
          ELSE
            LET quantity == Get(item, "quantity", 1)
                unit_price == Get(item, "unit_price", Zero)
                total_price == RMul(Int2R(quantity), unit_price)
                raw_split_between == item.split_between
                participants_list ==
                    [j \in 1..Len(raw_split_between) |-> NormaliseParticipant(raw_split_between[j])]
                share_per_person == RDivInt(total_price, Len(participants_list))
                acc2 == AccrueAll(acc, participants_list, 1, share_per_person)
            IN  IF item.split_type \notin ItemSplitType
                THEN [status |-> 500, acc |-> acc2, bill_items |-> bill_items,
                      detail |-> [kind |-> "ValueError", item |-> name]]
                ELSE ByItemLoop(items, i + 1, acc2,
                        Append(bill_items,
                               BillItem(_generate_item_id(i), item.name, quantity, unit_price,
                                        _round_share(total_price), item.split_type,
                                        participants_list)))

\* A by-item split that looks for a missing split_between in every item before it
\* looks for a missing split_type in any.
_process_by_item_two_pass(payload) ==
    LET items == payload.items
        no_between == {i \in 1..Len(items) :
                          "split_between" \notin DOMAIN items[i] \/ items[i].split_between = <<>>}
        first == CHOOSE i \in no_between : \A j \in no_between : i <= j
        loop == ByItemLoop(items, 1, <<>>, <<>>)
    IN  IF no_between # {} THEN Raise(400, "split_between", Get(items[first], "name", "unknown"))
        ELSE IF loop.status # 200 THEN Raise(loop.status, loop.detail.kind, loop.detail.item)
        ELSE Return(_calculate_subtotal(items),
                    _round_share(_calculate_total_amount(_calculate_subtotal(items), payload.tax)),
                    loop.bill_items,
                    [k \in 1..Len(loop.acc) |->
                        UserShare(loop.acc[k].participant,
                                  _round_share(RMul(loop.acc[k].share,
                                                    RAdd(Int2R(1), RDivInt(payload.tax, 100)))))])

_process_by_item(payload) ==
    LET subtotal == _calculate_subtotal(payload.items)
        total_amount == _calculate_total_amount(subtotal, payload.tax)
        tax_multiplier == RAdd(Int2R(1), RDivInt(payload.tax, 100))
        loop == ByItemLoop(payload.items, 1, <<>>, <<>>)
        per_user_shares ==
            [k \in 1..Len(loop.acc) |->
                UserShare(loop.acc[k].participant,
                          _round_share(RMul(loop.acc[k].share, tax_multiplier)))]
    IN  IF loop.status # 200 THEN Raise(loop.status, loop.detail.kind, loop.detail.item)
        ELSE Return(subtotal, _round_share(total_amount), loop.bill_items, per_user_shares)

\* Items recorded without split metadata (equally and manual).
PlainItems(items) ==
    [i \in 1..Len(items) |->
        BillItem(_generate_item_id(i), items[i].name, Get(items[i], "quantity", 1),
                 Get(items[i], "unit_price", Zero),
                 _round_share(RMul(Int2R(Get(items[i], "quantity", 1)),
                                   Get(items[i], "unit_price", Zero))),
                 NoSplit, <<>>)]

\* An equal split that charges the whole total to the first roster entry.
_process_equally_first_only(payload, event) ==
    LET subtotal == _calculate_subtotal(payload.items)
        total_amount == _calculate_total_amount(subtotal, payload.tax)
    IN  IF Len(event.participants) = 0
        THEN Raise(400, "no_participants", "")
        ELSE Return(subtotal, _round_share(total_amount), PlainItems(payload.items),
                    <<UserShare(event.participants[1], _round_share(total_amount))>>)

\* An equal split that accepts an empty roster and hands back no shares.
_process_equally_no_roster_check(payload, event) ==
    LET subtotal == _calculate_subtotal(payload.items)
        total_amount == _calculate_total_amount(subtotal, payload.tax)
    IN  Return(subtotal, _round_share(total_amount), PlainItems(payload.items),
               [k \in 1..Len(event.participants) |->
                   UserShare(event.participants[k],
                             _round_share(RDivInt(total_amount, Len(event.participants))))])

_process_equally(payload, event) ==
    IF Len(event.participants) = 0
    THEN Raise(400, "no_participants", "")
    ELSE
      LET subtotal == _calculate_subtotal(payload.items)
          total_amount == _calculate_total_amount(subtotal, payload.tax)
          share_per_person == RDivInt(total_amount, Len(event.participants))
          per_user_shares ==
              [k \in 1..Len(event.participants) |->
                  UserShare(event.participants[k], _round_share(share_per_person))]
      IN  Return(subtotal, _round_share(total_amount), PlainItems(payload.items), per_user_shares)

\* payload.manual_shares: None is NoShares, a list is [list |-> <<...>>] of
\* ManualShareIn records [user_name: str, amount: float >= 0].
NoShares == [none |-> TRUE]
Shares(list) == [list |-> list]
ManualShareIn(user_name, amount) == [user_name |-> user_name, amount |-> amount]

ManualSum(manual_shares) ==
    RSum([k \in 1..Len(manual_shares) |-> manual_shares[k].amount])

\* A manual split without the presence and tolerance checks.
_process_manual_no_check(payload) ==
    LET subtotal == _calculate_subtotal(payload.items)
        total_amount == _calculate_total_amount(subtotal, payload.tax)
        shares == IF payload.manual_shares = NoShares THEN <<>> ELSE payload.manual_shares.list
    IN  Return(subtotal, _round_share(total_amount), PlainItems(payload.items),
               [k \in 1..Len(shares) |->
                   UserShare(Str(shares[k].user_name), _round_share(shares[k].amount))])

\* A manual split that merges the entries of one name.
_process_manual_merge(payload) ==
    LET subtotal == _calculate_subtotal(payload.items)
        total_amount == _calculate_total_amount(subtotal, payload.tax)
        shares == IF payload.manual_shares = NoShares THEN <<>> ELSE payload.manual_shares.list
    IN  IF Len(shares) = 0 THEN Raise(400, "manual_shares_required", "")
        ELSE IF RLt(Tolerance, RAbs(RSub(ManualSum(shares), total_amount)))
        THEN Raise(400, "manual_shares_sum", "")
        ELSE Return(subtotal, _round_share(total_amount), PlainItems(payload.items),
                    [k \in 1..Cardinality({shares[j].user_name : j \in 1..Len(shares)}) |->
                        UserShare(Str(shares[k].user_name), _round_share(shares[k].amount))])

_process_manual(payload) ==
    IF payload.manual_shares = NoShares \/ Len(payload.manual_shares.list) = 0
    THEN Raise(400, "manual_shares_required", "")
    ELSE
      LET manual_shares == payload.manual_shares.list
          subtotal == _calculate_subtotal(payload.items)
          total_amount == _calculate_total_amount(subtotal, payload.tax)
          manual_shares_sum == ManualSum(manual_shares)
      IN  IF RLt(Tolerance, RAbs(RSub(manual_shares_sum, total_amount)))
          THEN Raise(400, "manual_shares_sum", "")
          ELSE Return(subtotal, _round_share(total_amount), PlainItems(payload.items),
                      [k \in 1..Len(manual_shares) |->
                          UserShare(Str(manual_shares[k].user_name),
                                    _round_share(manual_shares[k].amount))])

\* ------------------------------------------------------- balance calculator
BalanceItemOut(debtor, creditor, amount_owed) ==
    [debtor |-> debtor, creditor |-> creditor, amount_owed |-> amount_owed]

\* A balance loop that does not skip the payer's own share.
RECURSIVE BalancesLoopNoSkip(_, _, _, _)
BalancesLoopNoSkip(per_user_shares, creditor, k, balances) ==
    IF k > Len(per_user_shares) THEN [status |-> 200, balances |-> balances]
    ELSE
      LET debtor == per_user_shares[k].user_name
      IN  IF IsStr(debtor) THEN [status |-> 500, balances |-> <<>>]
          ELSE BalancesLoopNoSkip(per_user_shares, creditor, k + 1,
                  Append(balances,
                         BalanceItemOut(debtor, creditor, _round_share(per_user_shares[k].share))))

\* The loop of _calculate_balances_for_bill from share k on. A share whose
\* user_name is a bare str has no user_id attribute: reading it raises.
RECURSIVE BalancesLoop(_, _, _, _)
BalancesLoop(per_user_shares, creditor, k, balances) ==
    IF k > Len(per_user_shares) THEN [status |-> 200, balances |-> balances]
    ELSE
      LET debtor == per_user_shares[k].user_name
      IN  IF IsStr(debtor) THEN [status |-> 500, balances |-> <<>>]
          ELSE IF _is_same_participant(debtor, creditor)
          THEN BalancesLoop(per_user_shares, creditor, k + 1, balances)
          ELSE BalancesLoop(per_user_shares, creditor, k + 1,
                  Append(balances,
                         BalanceItemOut(debtor, creditor, _round_share(per_user_shares[k].share))))

\* Balances computed without skipping the payer.
_calculate_balances_for_bill_no_skip(bill) ==
    BalancesLoopNoSkip(bill.per_user_shares, bill.paid_by, 1, <<>>)

_calculate_balances_for_bill(bill) ==
    BalancesLoop(bill.per_user_shares, bill.paid_by, 1, <<>>)

\* ----------------------------------------------------------------- the store
EventIds == {"e1", "e2", "e3", "e4", "e5"}
BillIds == 1..MaxBills
Callers == UserIds \cup {"bad"}

\* ObjectId.is_valid(id_str)
_parse_object_id_ok(id_str) == id_str \in UserIds \cup EventIds

Bills(id, owner_id, event_id, title, note, bill_split_type, bill_items, subtotal, tax, total_amount, paid_by, per_user_shares, created_at, updated_at) ==
    [id |-> id, owner_id |-> owner_id, event_id |-> event_id, title |-> title, note |-> note,
     bill_split_type |-> bill_split_type, items |-> bill_items, subtotal |-> subtotal,
     tax |-> tax, total_amount |-> total_amount, paid_by |-> paid_by,
     per_user_shares |-> per_user_shares, created_at |-> created_at, updated_at |-> updated_at]

Events(participants) == [participants |-> participants, total_amount |-> Zero, bills |-> <<>>]

NoReq == [none |-> TRUE]
NoDetail == [kind |-> "", item |-> ""]
\* What the response keeps of an update or delete request: who sent it.
Caller(current_user) == [current_user |-> current_user]
Response(op, status, detail, bill_id, req, balances) ==
    [op |-> op, status |-> status, detail |-> detail, bill_id |-> bill_id, req |-> req,
     balances |-> balances]

\* A resolution that takes the last roster participant that matches.
ResolvePaidByLast(event, paid_by) ==
    LET hits == {k \in 1..Len(event.participants) :
                    \/ (event.participants[k].user_id # NoneId
                        /\ event.participants[k].user_id = paid_by)
                    \/ event.participants[k].name = paid_by}
    IN  IF hits = {} THEN Participants(paid_by, NoneId, TRUE)
        ELSE event.participants[CHOOSE k \in hits : \A h \in hits : k >= h]

\* The paid_by string of the request mapped to a roster participant, or a new guest.
ResolvePaidBy(event, paid_by) ==
    LET hits == {k \in 1..Len(event.participants) :
                    \/ (event.participants[k].user_id # NoneId
                        /\ event.participants[k].user_id = paid_by)
                    \/ event.participants[k].name = paid_by}
    IN  IF hits = {} THEN Participants(paid_by, NoneId, TRUE)
        ELSE event.participants[CHOOSE k \in hits : \A h \in hits : k <= h]

\* The status and, on success, the bill that create_bill builds for a request.
CreateOutcome(payload) ==
    IF payload.event_id \notin DOMAIN events THEN Raise(404, "event", "")
    ELSE IF ~_parse_object_id_ok(payload.current_user) THEN Raise(400, "identifier", "")
    ELSE
      LET event == events[payload.event_id]
      IN  IF payload.bill_split_type = BY_ITEM THEN _process_by_item(payload)
          ELSE IF payload.bill_split_type = EQUALLY THEN _process_equally(payload, event)
          ELSE IF payload.bill_split_type = MANUAL THEN _process_manual(payload)
          ELSE Raise(400, "bill_split_type", "")

NewBill(payload, out, id) ==
    Bills(id, payload.current_user, payload.event_id, payload.title, payload.note,
          payload.bill_split_type, out.items, out.subtotal, payload.tax, out.total_amount,
          ResolvePaidBy(events[payload.event_id], payload.paid_by), out.per_user_shares,
          now, now)

Insert(id, bill) == [i \in DOMAIN bills \cup {id} |-> IF i = id THEN bill ELSE bills[i]]

\* A create_bill that inserts the bill before the split policy has validated it.
create_bill_partial(payload) ==
    LET out == CreateOutcome(payload)
    IN  /\ nextId <= MaxBills
        /\ IF out.status = 200 \/ (out.status = 400 /\ payload.event_id \in DOMAIN events
                                   /\ _parse_object_id_ok(payload.current_user))
           THEN /\ bills' = Insert(nextId, NewBill(payload, out, nextId))
                /\ nextId' = nextId + 1
                /\ resp' = Response("create_bill", IF out.status = 200 THEN 201 ELSE out.status, out.detail,
                                    nextId, payload, <<>>)
           ELSE /\ resp' = Response("create_bill", out.status, out.detail, 0, payload, <<>>)
                /\ UNCHANGED <<bills, nextId>>
        /\ UNCHANGED <<events, now, tasks, call, accounts>>

create_bill(payload) ==
    LET out == CreateOutcome(payload)
    IN  /\ nextId <= MaxBills
        /\ IF out.status = 200
           THEN /\ bills' = Insert(nextId, NewBill(payload, out, nextId))
                /\ nextId' = nextId + 1
                /\ resp' = Response("create_bill", 201, NoDetail, nextId, payload, <<>>)
           ELSE /\ resp' = Response("create_bill", out.status, out.detail, 0, payload, <<>>)
                /\ UNCHANGED <<bills, nextId>>
        /\ UNCHANGED <<events, now, tasks, call, accounts>>

\* BillUpdateIn: the dict of the fields the request set (exclude_unset).
UpdatePayloads == {<<>>, [title |-> "t2"], [title |-> "t2", note |-> "n2"]}

\* An update that does not look at the owner.
update_bill_anyone(bill_id, payload, current_user) ==
    /\ IF bill_id \notin DOMAIN bills
       THEN /\ resp' = Response("update_bill", 404, [kind |-> "bill", item |-> ""], bill_id, Caller(current_user), <<>>)
            /\ UNCHANGED bills
       ELSE IF FALSE
       THEN /\ resp' = Response("update_bill", 403, [kind |-> "owner", item |-> ""], bill_id, Caller(current_user), <<>>)
            /\ UNCHANGED bills
       ELSE /\ resp' = Response("update_bill", 200, NoDetail, bill_id, Caller(current_user), <<>>)
            /\ bills' = IF DOMAIN payload = {} THEN bills
                        ELSE [bills EXCEPT ![bill_id] =
                                 [f \in DOMAIN @ |-> IF f \in DOMAIN payload THEN payload[f]
                                                     ELSE IF f = "updated_at" THEN now
                                                     ELSE @[f]]]
    /\ UNCHANGED <<events, nextId, now, tasks, call, accounts>>

\* An update that stamps created_at as well.
update_bill_restamp(bill_id, payload, current_user) ==
    /\ IF bill_id \notin DOMAIN bills
       THEN /\ resp' = Response("update_bill", 404, [kind |-> "bill", item |-> ""], bill_id, Caller(current_user), <<>>)
            /\ UNCHANGED bills
       ELSE IF bills[bill_id].owner_id # current_user
       THEN /\ resp' = Response("update_bill", 403, [kind |-> "owner", item |-> ""], bill_id, Caller(current_user), <<>>)
            /\ UNCHANGED bills
       ELSE /\ resp' = Response("update_bill", 200, NoDetail, bill_id, Caller(current_user), <<>>)
            /\ bills' = IF DOMAIN payload = {} THEN bills
                        ELSE [bills EXCEPT ![bill_id] =
                                 [f \in DOMAIN @ |-> IF f \in DOMAIN payload THEN payload[f]
                                                     ELSE IF f \in {"updated_at", "created_at"} THEN now
                                                     ELSE @[f]]]
    /\ UNCHANGED <<events, nextId, now, tasks, call, accounts>>

\* An update that leaves updated_at as it was.
update_bill_no_stamp(bill_id, payload, current_user) ==
    /\ IF bill_id \notin DOMAIN bills
       THEN /\ resp' = Response("update_bill", 404, [kind |-> "bill", item |-> ""], bill_id, Caller(current_user), <<>>)
            /\ UNCHANGED bills
       ELSE IF bills[bill_id].owner_id # current_user
       THEN /\ resp' = Response("update_bill", 403, [kind |-> "owner", item |-> ""], bill_id, Caller(current_user), <<>>)
            /\ UNCHANGED bills
       ELSE /\ resp' = Response("update_bill", 200, NoDetail, bill_id, Caller(current_user), <<>>)
            /\ bills' = IF DOMAIN payload = {} THEN bills
                        ELSE [bills EXCEPT ![bill_id] =
                                 [f \in DOMAIN @ |-> IF f \in DOMAIN payload THEN payload[f] ELSE @[f]]]
    /\ UNCHANGED <<events, nextId, now, tasks, call, accounts>>

update_bill(bill_id, payload, current_user) ==
    /\ IF bill_id \notin DOMAIN bills
       THEN /\ resp' = Response("update_bill", 404, [kind |-> "bill", item |-> ""], bill_id, Caller(current_user), <<>>)
            /\ UNCHANGED bills
       ELSE IF bills[bill_id].owner_id # current_user
       THEN /\ resp' = Response("update_bill", 403, [kind |-> "owner", item |-> ""], bill_id, Caller(current_user), <<>>)
            /\ UNCHANGED bills
       ELSE /\ resp' = Response("update_bill", 200, NoDetail, bill_id, Caller(current_user), <<>>)
            /\ bills' = IF DOMAIN payload = {} THEN bills
                        ELSE [bills EXCEPT ![bill_id] =
                                 [f \in DOMAIN @ |-> IF f \in DOMAIN payload THEN payload[f]
                                                     ELSE IF f = "updated_at" THEN now
                                                     ELSE @[f]]]
    /\ UNCHANGED <<events, nextId, now, tasks, call, accounts>>

\* A delete that also takes the bill out of the events holding it.
delete_bill_cascade(bill_id, current_user) ==
    /\ IF bill_id \notin DOMAIN bills
       THEN /\ resp' = Response("delete_bill", 404, [kind |-> "bill", item |-> ""], bill_id, Caller(current_user), <<>>)
            /\ UNCHANGED bills
       ELSE IF bills[bill_id].owner_id # current_user
       THEN /\ resp' = Response("delete_bill", 403, [kind |-> "owner", item |-> ""], bill_id, Caller(current_user), <<>>)
            /\ UNCHANGED bills
       ELSE /\ resp' = Response("delete_bill", 200, NoDetail, bill_id, Caller(current_user), <<>>)
            /\ bills' = [i \in DOMAIN bills \ {bill_id} |-> bills[i]]
    /\ events' = [e \in DOMAIN events |->
                     [events[e] EXCEPT !.bills = SelectSeq(@, LAMBDA b : b.id \notin DOMAIN bills')]]
    /\ UNCHANGED <<nextId, now, tasks, call, accounts>>

delete_bill(bill_id, current_user) ==
    /\ IF bill_id \notin DOMAIN bills
       THEN /\ resp' = Response("delete_bill", 404, [kind |-> "bill", item |-> ""], bill_id, Caller(current_user), <<>>)
            /\ UNCHANGED bills
       ELSE IF bills[bill_id].owner_id # current_user
       THEN /\ resp' = Response("delete_bill", 403, [kind |-> "owner", item |-> ""], bill_id, Caller(current_user), <<>>)
            /\ UNCHANGED bills
       ELSE /\ resp' = Response("delete_bill", 200, NoDetail, bill_id, Caller(current_user), <<>>)
            /\ bills' = [i \in DOMAIN bills \ {bill_id} |-> bills[i]]
    /\ UNCHANGED <<events, nextId, now, tasks, call, accounts>>

\* events_router.add_bill_to_event: the event gets a copy of the stored bill unless
\* some event already holds a bill of that id.
add_bill_to_event(event_id, bill_id) ==
    /\ IF event_id \notin DOMAIN events
       THEN /\ resp' = Response("add_bill_to_event", 404, [kind |-> "event", item |-> ""], bill_id, [event_id |-> event_id], <<>>)
            /\ UNCHANGED events
       ELSE IF bill_id \notin DOMAIN bills
       THEN /\ resp' = Response("add_bill_to_event", 404, [kind |-> "bill", item |-> ""], bill_id, [event_id |-> event_id], <<>>)
            /\ UNCHANGED events
       ELSE IF \E e \in DOMAIN events : \E k \in 1..Len(events[e].bills) : events[e].bills[k].id = bill_id
       THEN /\ resp' = Response("add_bill_to_event", 400, [kind |-> "already", item |-> ""], bill_id, [event_id |-> event_id], <<>>)
            /\ UNCHANGED events
       ELSE /\ resp' = Response("add_bill_to_event", 200, NoDetail, bill_id, [event_id |-> event_id], <<>>)
            /\ events' = [events EXCEPT ![event_id].bills = Append(@, bills[bill_id])]
    /\ UNCHANGED <<bills, nextId, now, tasks, call, accounts>>

get_bill_balances(bill_id) ==
    /\ IF bill_id \notin DOMAIN bills
       THEN resp' = Response("get_bill_balances", 404, [kind |-> "bill", item |-> ""], bill_id, NoReq, <<>>)
       ELSE LET result == _calculate_balances_for_bill(bills[bill_id])
            IN  resp' = Response("get_bill_balances", result.status, NoDetail, bill_id, NoReq,
                                 result.balances)
    /\ UNCHANGED <<events, bills, nextId, now, tasks, call, accounts>>

\* --------------------------------------------------------------- the inputs
PMinh == Participants("Minh", "u1", FALSE)
PLan == Participants("Lan", NoneId, TRUE)
PMai == Participants("Mai", NoneId, TRUE)

\* Raw split_between entries as the client sends them.
RMinh == [name |-> "Minh", user_id |-> "u1", is_guest |-> FALSE]
RAnn == [name |-> "Ann", user_id |-> "u1", is_guest |-> FALSE]
RMinhGuest == [name |-> "Minh"]
RU1Guest == [name |-> "u1", user_id |-> NoneId, is_guest |-> TRUE]
RLan == [name |-> "Lan", user_id |-> NoneId, is_guest |-> TRUE]
RLanStr == Str("Lan")

Soup == [name |-> "Soup", unit_price |-> Frac(1, 100)]
Wings == [name |-> "Wings", quantity |-> 3, unit_price |-> Frac(10004, 1000)]
Pizza == [name |-> "Pizza", quantity |-> 1, unit_price |-> Int2R(10)]
Free == [name |-> "Free", quantity |-> 2]

Split(item, split_type, split_between) ==
    item @@ [split_type |-> split_type, split_between |-> split_between]

SeqsUpTo(S, n) == UNION {[1..k -> S] : k \in 1..n}

Req(event_id, current_user, bill_split_type, items, tax, paid_by, manual_shares) ==
    [event_id |-> event_id, current_user |-> current_user, title |-> "t1", note |-> NoneId,
     bill_split_type |-> bill_split_type, items |-> items, tax |-> tax, paid_by |-> paid_by,
     manual_shares |-> manual_shares]

\* The requests of the full state machine: each policy, accepted and refused.
CoreRequests ==
    { Req("e1", "u1", BY_ITEM, <<Split(Soup, "everyone", <<RMinh, RMinhGuest>>)>>,
          Int2R(10), "Minh", NoShares),
      Req("e1", "u2", BY_ITEM, <<Split(Wings, "custom", <<RU1Guest, RAnn>>),
                                 Split(Soup, "custom", <<RLan, RU1Guest>>)>>,
          Zero, "Zed", NoShares),
      Req("e3", "u1", BY_ITEM, <<Split(Pizza, "custom", <<RU1Guest, RLanStr, RLan>>)>>,
          Int2R(10), "u1", NoShares),
      Req("e1", "u1", BY_ITEM, <<Split(Pizza, "custom", <<RLan>>), Soup>>,
          Zero, "Minh", NoShares),
      Req("e1", "u1", EQUALLY, <<Pizza>>, Int2R(10), "u1", NoShares),
      Req("e4", "u2", EQUALLY, <<Split(Wings, "custom", <<RMinh>>)>>, Frac(17, 2), "Lan", NoShares),
      Req("e2", "u1", EQUALLY, <<Pizza>>, Zero, "Minh", NoShares),
      Req("e1", "u1", MANUAL, <<Pizza>>, Zero, "Minh",
          Shares(<<ManualShareIn("Minh", Int2R(5)), ManualShareIn("Lan", Int2R(5))>>)),
      Req("e1", "u2", MANUAL, <<Wings>>, Int2R(10), "Lan",
          Shares(<<ManualShareIn("Lan", Frac(330132, 10000))>>)),
      Req("e1", "u1", MANUAL, <<Pizza>>, Zero, "Minh",
          Shares(<<ManualShareIn("Minh", Int2R(5)), ManualShareIn("Lan", Int2R(4))>>)),
      Req("e1", "u1", MANUAL, <<Pizza>>, Zero, "Minh", NoShares),
      Req("e9", "u1", EQUALLY, <<Pizza>>, Zero, "Minh", NoShares),
      Req("e1", "bad", EQUALLY, <<Pizza>>, Zero, "Minh", NoShares) }

\* By-item requests: every list of up to MaxItems items of the pool.
SplitLists ==
    { <<RMinh, RMinhGuest>>, <<RMinh, RU1Guest>>, <<RAnn, RMinh>>,
      <<RLanStr, RMinhGuest, RLan>>, <<RMinhGuest>> }

ByItemPool ==
    {Split(b, "everyone", sb) : b \in {Soup, Wings}, sb \in SplitLists}
    \cup { Soup,
           Split(Soup, "custom", <<>>),
           Wings @@ [split_between |-> <<RLan>>],
           Split(Soup, "weighted", <<RLan>>) }

ByItemRequests ==
    {Req("e1", "u1", BY_ITEM, items, tax, "Minh", NoShares) :
        items \in SeqsUpTo(ByItemPool, MaxItems), tax \in {Zero, Int2R(10)}}

\* Equally requests: every event, items with and without split metadata.
EquallyPool == {Pizza, Soup, Split(Wings, "custom", <<RMinh>>)}

EquallyRequests ==
    {Req(e, "u1", EQUALLY, items, tax, "Lan", NoShares) :
        e \in EventIds, items \in SeqsUpTo(EquallyPool, MaxItems),
        tax \in {Zero, Int2R(8), Int2R(10)}}

\* Manual requests: every list of up to MaxShares (name, amount) pairs, or none.
ManualAmounts == {Zero, Int2R(5), Frac(5006, 1000), Int2R(10)}
ManualEntries == {ManualShareIn(n, a) : n \in {"Minh", "Lan"}, a \in ManualAmounts}
ManualItemLists == {<<Pizza>>, <<Free>>, <<[name |-> "Tea", unit_price |-> Frac(10004, 1000)]>>}

ManualRequests ==
    {Req("e1", c, MANUAL, items, tax, "Minh", ms) :
        c \in {"u1", "bad"}, items \in ManualItemLists, tax \in {Zero, Int2R(10)},
        ms \in {NoShares, Shares(<<>>)} \cup {Shares(l) : l \in SeqsUpTo(ManualEntries, MaxShares)}}

\* ------------------------------------------------------- the state machine
NoCall == [none |-> TRUE]

\* No bill is stored and no request has been handled.
InitLedger ==
    /\ events = [e \in EventIds |->
                    Events(CASE e = "e1" -> <<PMinh, PLan, PMai>>
                             [] e = "e2" -> <<>>
                             [] e = "e3" -> <<Participants("u1", NoneId, TRUE),
                                              Participants("Ann", "u2", FALSE)>>
                             [] e = "e4" -> <<PLan>>
                             [] OTHER -> <<Participants("u2", NoneId, TRUE),
                                           Participants("Ann", "u2", FALSE),
                                           Participants("Ann", NoneId, TRUE)>>)]
    /\ bills = <<>>
    /\ nextId = 1
    /\ resp = Response("none", 0, NoDetail, 0, NoReq, <<>>)
    /\ now = 0
    /\ tasks = <<>>

\* The account collections are empty and no email has been handed over.
InitCollections ==
    /\ users = <<>>
    /\ nextUser = 1
    /\ otp_codes = <<>>
    /\ refresh_tokens = <<>>
    /\ outbox = <<>>

\* The server runs on UTC.
InitAccounts == InitCollections /\ tz = 0

Init == InitLedger /\ call = NoCall /\ InitAccounts

CreateBill == \E payload \in CoreRequests : create_bill(payload)

UpdateBill ==
    \E bill_id \in BillIds, payload \in UpdatePayloads, current_user \in UserIds :
        update_bill(bill_id, payload, current_user)

DeleteBill == \E bill_id \in BillIds, current_user \in UserIds : delete_bill(bill_id, current_user)

GetBillBalances == \E bill_id \in BillIds : get_bill_balances(bill_id)

Next == CreateBill \/ UpdateBill \/ DeleteBill \/ GetBillBalances

Spec == Init /\ [][Next]_vars

\* One request against the initial store, for each policy's generated requests.
CreateByItem == resp.op = "none" /\ \E payload \in ByItemRequests : create_bill(payload)
NextByItem == CreateByItem \/ GetBillBalances
SpecByItem == Init /\ [][NextByItem]_vars

CreateEqually == resp.op = "none" /\ \E payload \in EquallyRequests : create_bill(payload)
NextEqually == CreateEqually \/ GetBillBalances
SpecEqually == Init /\ [][NextEqually]_vars

CreateManual == resp.op = "none" /\ \E payload \in ManualRequests : create_bill(payload)
NextManual == CreateManual \/ GetBillBalances
SpecManual == Init /\ [][NextManual]_vars

\* ------------------------------------------------- the life of stored bills
\* Ticks of the clock in one behaviour.
MaxTime == 1

\* Time passes between two requests.
Tick ==
    /\ now < MaxTime
    /\ now' = now + 1
    /\ UNCHANGED <<events, bills, nextId, resp, tasks, call, accounts>>

LifeRequests ==
    { Req("e1", "u1", BY_ITEM, <<Split(Pizza, "custom", <<RLan, RMinh>>)>>, Int2R(10), "Minh", NoShares),
      Req("e3", "u2", MANUAL, <<Pizza>>, Zero, "Ann", Shares(<<ManualShareIn("Ann", Int2R(10))>>)) }

CreateLife == \E payload \in LifeRequests : create_bill(payload)
NextLife == Tick \/ CreateLife \/ UpdateBill \/ DeleteBill
SpecLife == Init /\ [][NextLife]_vars

\* ------------------------------------------------------ who paid the bill
\* One by_item or equally request against the initial store, for every event and
\* every way of naming the payer.
PaidByStrings == {"Minh", "Lan", "Ann", "u1", "u2", "Zed"}
PaidByRequests ==
    {Req(e, "u1", t, <<Split(Pizza, "custom", <<RLan>>)>>, Zero, paid_by, NoShares) :
        e \in EventIds, t \in {BY_ITEM, EQUALLY}, paid_by \in PaidByStrings}

CreatePaidBy == resp.op = "none" /\ \E payload \in PaidByRequests : create_bill(payload)
NextPaidBy == CreatePaidBy \/ GetBillBalances
SpecPaidBy == Init /\ [][NextPaidBy]_vars

\* ----------------------------------------------- one request, three policies
\* Requests that carry what every policy needs (split metadata on the items, a
\* manual share of the whole total), sent under each policy in turn.
PolicyPool ==
    { Split(Soup, "everyone", <<RLan, RMinh>>), Split(Wings, "custom", <<RMinh>>),
      Split(Free, "custom", <<RLan>>), Pizza }
PolicyRequests ==
    {Req("e1", "u1", t, items, tax, "Minh",
         Shares(<<ManualShareIn("Lan", _calculate_total_amount(_calculate_subtotal(items), tax))>>)) :
        t \in BillSplitType, items \in SeqsUpTo(PolicyPool, MaxItems), tax \in {Zero, Int2R(10)}}

CreatePolicies == resp.op = "none" /\ \E payload \in PolicyRequests : create_bill(payload)
NextPolicies == CreatePolicies \/ GetBillBalances
SpecPolicies == Init /\ [][NextPolicies]_vars

\* One by_item or equally request against the initial store.
NextSplit == CreateByItem \/ CreateEqually \/ GetBillBalances
SpecSplit == Init /\ [][NextSplit]_vars

\* ------------------------------------------------------- bills and events
\* Bills of one request, retitled, deleted and attached to events.
EventsRequests == {Req("e1", "u1", EQUALLY, <<Pizza>>, Int2R(10), "Minh", NoShares)}
AddEventIds == {"e1", "e3", "e9"}

CreateEvents == \E payload \in EventsRequests : create_bill(payload)
UpdateEvents ==
    \E bill_id \in BillIds, current_user \in UserIds :
        update_bill(bill_id, [title |-> "t2"], current_user)
AddBillToEvent ==
    \E event_id \in AddEventIds, bill_id \in BillIds : add_bill_to_event(event_id, bill_id)
NextEvents == CreateEvents \/ UpdateEvents \/ DeleteBill \/ AddBillToEvent
SpecEvents == Init /\ [][NextEvents]_vars

\* --------------------------------------------- concurrent create_bill requests
\* A create_bill coroutine suspends at await _validate_event(...) and at
\* await new_bill.insert(); what lies between two awaits runs without interruption
\* on the event loop. The frame of a task holds its payload, the place it is
\* suspended at, the bill it has built and, when done, its response.
NoBill == [none |-> TRUE]
Frame(payload, pc, bill, status, bill_id) ==
    [payload |-> payload, pc |-> pc, bill |-> bill, status |-> status, bill_id |-> bill_id]

ConcurrentRequests ==
    { Req("e1", "u1", BY_ITEM, <<Split(Pizza, "custom", <<RLan, RMinh>>)>>, Int2R(10), "Minh", NoShares),
      Req("e1", "u2", EQUALLY, <<Wings>>, Zero, "Lan", NoShares),
      Req("e3", "u1", MANUAL, <<Pizza>>, Zero, "Ann", Shares(<<ManualShareIn("Ann", Int2R(10))>>)),
      Req("e2", "u1", EQUALLY, <<Pizza>>, Zero, "Minh", NoShares),
      Req("e9", "u1", EQUALLY, <<Pizza>>, Zero, "Minh", NoShares) }

\* A request arrives: its coroutine starts and suspends at the event lookup.
BeginCreate ==
    /\ Len(tasks) < MaxBills
    /\ \E payload \in ConcurrentRequests :
          tasks' = Append(tasks, Frame(payload, "lookup", NoBill, 0, 0))
    /\ UNCHANGED <<events, bills, nextId, resp, now, call, accounts>>

\* The event lookup answers; the task runs up to the insert or to the exception.
ResumeFromLookup(t) ==
    LET payload == tasks[t].payload
        out == CreateOutcome(payload)
    IN  /\ tasks[t].pc = "lookup"
        /\ tasks' = [tasks EXCEPT ![t] = IF out.status = 200
                                         THEN Frame(payload, "insert", NewBill(payload, out, 0), 0, 0)
                                         ELSE Frame(payload, "done", NoBill, out.status, 0)]
        /\ resp' = IF out.status = 200
                   THEN resp
                   ELSE Response("create_bill", out.status, out.detail, 0, payload, <<>>)
        /\ UNCHANGED <<events, bills, nextId, now, call, accounts>>

\* An insert that writes the bill built last by any task.
ResumeFromInsertLatest(t) ==
    LET built == {u \in DOMAIN tasks : tasks[u].bill # NoBill}
        last == CHOOSE u \in built : \A w \in built : w <= u
    IN  /\ tasks[t].pc = "insert"
        /\ nextId <= MaxBills
        /\ bills' = Insert(nextId, [tasks[last].bill EXCEPT !.id = nextId])
        /\ nextId' = nextId + 1
        /\ tasks' = [tasks EXCEPT ![t] = Frame(tasks[t].payload, "done", tasks[t].bill, 201, nextId)]
        /\ resp' = Response("create_bill", 201, NoDetail, nextId, tasks[t].payload, <<>>)
        /\ UNCHANGED <<events, now, call, accounts>>

\* The insert is written and the task returns its response.
ResumeFromInsert(t) ==
    /\ tasks[t].pc = "insert"
    /\ nextId <= MaxBills
    /\ bills' = Insert(nextId, [tasks[t].bill EXCEPT !.id = nextId])
    /\ nextId' = nextId + 1
    /\ tasks' = [tasks EXCEPT ![t] = Frame(tasks[t].payload, "done", tasks[t].bill, 201, nextId)]
    /\ resp' = Response("create_bill", 201, NoDetail, nextId, tasks[t].payload, <<>>)
    /\ UNCHANGED <<events, now, call, accounts>>

LookupAnswers == \E t \in DOMAIN tasks : ResumeFromLookup(t)
InsertAnswers == \E t \in DOMAIN tasks : ResumeFromInsert(t)
NextConcurrent == BeginCreate \/ LookupAnswers \/ InsertAnswers

\* The database answers every query and the event loop resumes every ready task:
\* weak fairness of the resumption from each await, where a task is waiting at pc
\* exactly when its resumption is enabled (BeginCreate admits no more tasks than
\* there are ids) and leaves pc exactly when it is resumed.
Waiting(pc) == \E t \in DOMAIN tasks : tasks[t].pc = pc
Leaves(pc) == \E t \in DOMAIN tasks : tasks[t].pc = pc /\ tasks'[t].pc # pc
Resumed(pc) == ([]<>~Waiting(pc)) \/ ([]<><<Leaves(pc)>>_vars)
SpecConcurrent ==
    Init /\ [][NextConcurrent]_vars /\ Resumed("lookup") /\ Resumed("insert")

\* ------------------------------------------------- the identity of participants
\* _is_same_participant applied to two participants drawn from every combination
\* of a name and a user id; a user id may spell like a name ("u1").
IdentityNames == {"Minh", "Lan", "u1"}
IdentityIds == {NoneId, "u1", "u2"}
IdentityPool == {Participants(n, u, u = NoneId) : n \in IdentityNames, u \in IdentityIds}

Call(fn, args) == [fn |-> fn, args |-> args]
Result(fn, args, result) == [fn |-> fn, args |-> args, result |-> result]

InitIdentity ==
    /\ InitLedger
    /\ \E a \in IdentityPool, b \in IdentityPool : call = Call("_is_same_participant", <<a, b>>)
    /\ InitAccounts

IsSameParticipant ==
    /\ "result" \notin DOMAIN call
    /\ call' = Result(call.fn, call.args, _is_same_participant(call.args[1], call.args[2]))
    /\ UNCHANGED <<ledger, resp, now, accounts>>

NextIdentity == IsSameParticipant
SpecIdentity == InitIdentity /\ [][NextIdentity]_vars

\* ------------------------------------------ concurrent add_bill_to_event requests
\* An add_bill_to_event coroutine suspends at Events.get, Bills.get, Events.find_one
\* and event.save(); between two awaits other requests may run. Its frame holds the
\* arguments, the await it is suspended at, the event and the bill it has read, and
\* its status once done. event.save() writes the whole document the task holds.
NoDoc == [none |-> TRUE]
AddFrame(event_id, bill_id, pc, event, bill, status) ==
    [event_id |-> event_id, bill_id |-> bill_id, pc |-> pc, event |-> event, bill |-> bill, status |-> status]

\* Requests in flight at once.
MaxAdds == 2

AttachRequests == {Req("e1", "u1", EQUALLY, <<Pizza>>, Int2R(10), "Minh", NoShares)}
AttachEventIds == {"e1", "e3", "e9"}

CreateAttach == tasks = <<>> /\ \E payload \in AttachRequests : create_bill(payload)

AddDone(t, status) ==
    /\ tasks' = [tasks EXCEPT ![t].pc = "done", ![t].status = status]
    /\ resp' = Response("add_bill_to_event", status, NoDetail, tasks[t].bill_id, [event_id |-> tasks[t].event_id], <<>>)

BeginAdd ==
    /\ Len(tasks) < MaxAdds
    /\ \E event_id \in AttachEventIds, bill_id \in 1..(MaxBills + 1) :
          tasks' = Append(tasks, AddFrame(event_id, bill_id, "Events.get", NoDoc, NoDoc, 0))
    /\ UNCHANGED <<events, bills, nextId, resp, now, call, accounts>>

ResumeFromEventsGet(t) ==
    /\ tasks[t].pc = "Events.get"
    /\ IF tasks[t].event_id \notin DOMAIN events
       THEN AddDone(t, 404)
       ELSE /\ tasks' = [tasks EXCEPT ![t].pc = "Bills.get", ![t].event = events[tasks[t].event_id]]
            /\ UNCHANGED resp
    /\ UNCHANGED <<events, bills, nextId, now, call, accounts>>

ResumeFromBillsGet(t) ==
    /\ tasks[t].pc = "Bills.get"
    /\ IF tasks[t].bill_id \notin DOMAIN bills
       THEN AddDone(t, 404)
       ELSE /\ tasks' = [tasks EXCEPT ![t].pc = "Events.find_one", ![t].bill = bills[tasks[t].bill_id]]
            /\ UNCHANGED resp
    /\ UNCHANGED <<events, bills, nextId, now, call, accounts>>

ResumeFromFindOne(t) ==
    /\ tasks[t].pc = "Events.find_one"
    /\ IF \E e \in DOMAIN events : \E k \in 1..Len(events[e].bills) : events[e].bills[k].id = tasks[t].bill_id
       THEN AddDone(t, 400)
       ELSE /\ tasks' = [tasks EXCEPT ![t].pc = "event.save", ![t].event.bills = Append(@, tasks[t].bill)]
            /\ UNCHANGED resp
    /\ UNCHANGED <<events, bills, nextId, now, call, accounts>>

ResumeFromSave(t) ==
    /\ tasks[t].pc = "event.save"
    /\ events' = [events EXCEPT ![tasks[t].event_id] = tasks[t].event]
    /\ AddDone(t, 200)
    /\ UNCHANGED <<bills, nextId, now, call, accounts>>

EventsGetAnswers == \E t \in DOMAIN tasks : ResumeFromEventsGet(t)
BillsGetAnswers == \E t \in DOMAIN tasks : ResumeFromBillsGet(t)
FindOneAnswers == \E t \in DOMAIN tasks : ResumeFromFindOne(t)
SaveAnswers == \E t \in DOMAIN tasks : ResumeFromSave(t)

NextAttach ==
    CreateAttach \/ BeginAdd \/ EventsGetAnswers \/ BillsGetAnswers \/ FindOneAnswers \/ SaveAnswers
SpecAttach == Init /\ [][NextAttach]_vars

\* ------------------------------------------------- bills created, attached, deleted
NextHeld == CreateEvents \/ AddBillToEvent \/ DeleteBill
SpecHeld == Init /\ [][NextHeld]_vars

\* ------------------------------------------------------------------ accounts
\* Users carry the fields the account routes read or compare: email and password
\* (first_name stands for the fields that are only stored and returned).
MaxUsers == 2

Emails == {"an@x.vn", "binh@x.vn"}
Passwords == {"pw1", "pw2"}

User(email, first_name, password) == [email |-> email, first_name |-> first_name, password |-> password]
UserIn(first_name, email, password) == [first_name |-> first_name, email |-> email, password |-> password]

\* pwd_context.hash and pwd_context.verify: a hash verifies the password it was
\* made from and no other (the salt is not modelled).
hash_password(password) == [bcrypt |-> password]
verify_password(plain_password, hashed_password) == hashed_password = [bcrypt |-> plain_password]

\* The response of an account route: status, detail of the HTTPException if any,
\* the request and the data returned.
NoData == [none |-> TRUE]
Reply(op, status, detail, req, data) ==
    [op |-> op, status |-> status, detail |-> detail, req |-> req, data |-> data]

\* User.find_one(User.email == email): the first stored user of that email, 0 if none.
FindUser(email) ==
    LET found == {u \in DOMAIN users : users[u].email = email}
    IN  IF found = {} THEN 0 ELSE CHOOSE u \in found : \A w \in found : u <= w

\* A signup that does not look for the email.
create_user_unchecked(data) ==
    /\ nextUser <= MaxUsers
    /\ users' = [u \in DOMAIN users \cup {nextUser} |->
                    IF u = nextUser THEN User(data.email, data.first_name, hash_password(data.password))
                    ELSE users[u]]
    /\ nextUser' = nextUser + 1
    /\ resp' = Reply("create_user", 201, "", data, [id |-> nextUser])
    /\ UNCHANGED <<ledger, now, call, otp_codes, refresh_tokens, outbox, tz>>

create_user(data) ==
    /\ nextUser <= MaxUsers
    /\ IF FindUser(data.email) # 0
       THEN /\ resp' = Reply("create_user", 400, "User with this email already exists", data, NoData)
            /\ UNCHANGED <<users, nextUser>>
       ELSE /\ users' = [u \in DOMAIN users \cup {nextUser} |->
                            IF u = nextUser THEN User(data.email, data.first_name, hash_password(data.password))
                            ELSE users[u]]
            /\ nextUser' = nextUser + 1
            /\ resp' = Reply("create_user", 201, "", data, [id |-> nextUser])
    /\ UNCHANGED <<ledger, now, call, otp_codes, refresh_tokens, outbox, tz>>

\* UserUpdate with the fields the request sets (model_dump(exclude_unset=True)).
UserUpdates ==
    {[email |-> e] : e \in Emails} \cup {[password |-> p] : p \in Passwords}
        \cup {[first_name |-> "An", email |-> e] : e \in Emails}

update_user(data, current_user) ==
    /\ IF current_user \notin DOMAIN users
       THEN /\ resp' = Reply("update_user", 404, "User not found", [data |-> data, current_user |-> current_user], NoData)
            /\ UNCHANGED users
       ELSE /\ users' = [users EXCEPT ![current_user] =
                            [f \in DOMAIN @ |-> IF f \notin DOMAIN data THEN @[f]
                                                ELSE IF f = "password" THEN hash_password(data[f])
                                                ELSE data[f]]]
            /\ resp' = Reply("update_user", 200, "", [data |-> data, current_user |-> current_user], [id |-> current_user])
    /\ UNCHANGED <<ledger, now, call, nextUser, otp_codes, refresh_tokens, outbox, tz>>

delete_user(user_id) ==
    /\ IF user_id \notin DOMAIN users
       THEN /\ resp' = Reply("delete_user", 404, "User not found", [user_id |-> user_id], NoData)
            /\ UNCHANGED users
       ELSE /\ users' = [u \in DOMAIN users \ {user_id} |-> users[u]]
            /\ resp' = Reply("delete_user", 200, "", [user_id |-> user_id], [id |-> user_id])
    /\ UNCHANGED <<ledger, now, call, nextUser, otp_codes, refresh_tokens, outbox, tz>>

SignUps == {UserIn(n, e, p) : n \in {"An"}, e \in Emails, p \in Passwords}
CreateUser == \E data \in SignUps : create_user(data)
UpdateUser == \E data \in UserUpdates, current_user \in 1..MaxUsers : update_user(data, current_user)
DeleteUser == \E user_id \in 1..MaxUsers : delete_user(user_id)

NextUsers == CreateUser \/ UpdateUser \/ DeleteUser
SpecUsers == Init /\ [][NextUsers]_vars

\* ------------------------------------------------------------------- tokens
\* The clock counts token lifetimes: a refresh token issued at time t expires at
\* t + REFRESH_TOKEN_EXPIRE_DAYS, one tick later; an access token lives a minute,
\* less than a tick.
REFRESH_TOKEN_EXPIRE_DAYS == 1
MaxTokens == 2
TimeZones == {-1, 0, 1}

\* datetime.now(): the naive local time, which the driver and the token library
\* read as if it were UTC.
LocalNow == now + tz

\* jwt.encode is a function of the claims: two tokens of one subject and one expiry
\* are the same string.
Jwt(sub, exp, type) == [sub |-> sub, exp |-> exp, type |-> type]
create_access_token(sub) == Jwt(sub, LocalNow, "access")
RefreshToken(token, user_id, expires_at) == [token |-> token, user_id |-> user_id, expires_at |-> expires_at]
NewRefreshToken(sub) == Jwt(sub, now + REFRESH_TOKEN_EXPIRE_DAYS, "refresh")

\* create_refresh_token: the token and the collection with its document inserted.
create_refresh_token(sub) ==
    Append(refresh_tokens, RefreshToken(NewRefreshToken(sub), sub, now + REFRESH_TOKEN_EXPIRE_DAYS))

Without(s, k) == [i \in 1..(Len(s) - 1) |-> IF i < k THEN s[i] ELSE s[i + 1]]
FirstIn(S) == CHOOSE k \in S : \A j \in S : k <= j

LoginRequest(email, password) == [email |-> email, password |-> password]

\* A login that does not verify the password.
login_user_any_password(data) ==
    LET u == FindUser(data.email)
    IN  /\ IF u = 0
           THEN /\ resp' = Reply("login_user", 401, "Invalid email or password", data, NoData)
                /\ UNCHANGED refresh_tokens
           ELSE /\ Len(refresh_tokens) < MaxTokens
                /\ refresh_tokens' = create_refresh_token(u)
                /\ resp' = Reply("login_user", 200, "", data,
                                 [id |-> u, email |-> users[u].email, access_token |-> create_access_token(u),
                                  refresh_token |-> NewRefreshToken(u)])
        /\ UNCHANGED <<ledger, now, call, users, nextUser, otp_codes, outbox, tz>>

login_user(data) ==
    LET u == FindUser(data.email)
    IN  /\ IF u = 0 \/ ~verify_password(data.password, users[u].password)
           THEN /\ resp' = Reply("login_user", 401, "Invalid email or password", data, NoData)
                /\ UNCHANGED refresh_tokens
           ELSE /\ Len(refresh_tokens) < MaxTokens
                /\ refresh_tokens' = create_refresh_token(u)
                /\ resp' = Reply("login_user", 200, "", data,
                                 [id |-> u, email |-> users[u].email, access_token |-> create_access_token(u),
                                  refresh_token |-> NewRefreshToken(u)])
        /\ UNCHANGED <<ledger, now, call, users, nextUser, otp_codes, outbox, tz>>

\* verify_refresh_token: the subject of the token, or the status it fails with
\* (500 stands for the ExpiredSignatureError jwt.decode raises, which is no
\* HTTPException).
verify_refresh_token(refresh_token) ==
    LET docs == {k \in 1..Len(refresh_tokens) :
                    refresh_tokens[k].token = refresh_token /\ refresh_tokens[k].expires_at > LocalNow}
    IN  IF docs = {} THEN [status |-> 401, detail |-> "Invalid or expired refresh token. Please login again!!!"]
        ELSE IF refresh_token.exp < now THEN [status |-> 500, detail |-> "ExpiredSignatureError"]
        ELSE IF refresh_token.type # "refresh"
        THEN [status |-> 401, detail |-> "Invalid refresh token. Please remove token and login again!!!"]
        ELSE [status |-> 200, user_id |-> refresh_token.sub]

refresh_access_token(refresh_token) ==
    LET verified == verify_refresh_token(refresh_token)
    IN  /\ IF verified.status # 200
           THEN resp' = Reply("refresh_access_token", verified.status, verified.detail, [refresh_token |-> refresh_token], NoData)
           ELSE resp' = Reply("refresh_access_token", 200, "", [refresh_token |-> refresh_token],
                              [access_token |-> create_access_token(verified.user_id),
                               refresh_token |-> refresh_token, token_type |-> "bearer"])
        /\ UNCHANGED <<ledger, now, call, accounts>>

\* revoke_refresh_token: the first document of that token, if any, is deleted.
revoke_refresh_token(refresh_token) ==
    LET docs == {k \in 1..Len(refresh_tokens) : refresh_tokens[k].token = refresh_token}
    IN  IF docs = {} THEN refresh_tokens ELSE Without(refresh_tokens, FirstIn(docs))

\* revoke_all_user_tokens: every document of that user is deleted.
revoke_all_user_tokens(user_id) == SelectSeq(refresh_tokens, LAMBDA d : d.user_id # user_id)

logout_user(refresh_token, current_user) ==
    /\ refresh_tokens' = revoke_refresh_token(refresh_token)
    /\ resp' = Reply("logout_user", 200, "", [refresh_token |-> refresh_token, current_user |-> current_user], NoData)
    /\ UNCHANGED <<ledger, now, call, users, nextUser, otp_codes, outbox, tz>>

logout_all_devices(current_user) ==
    /\ refresh_tokens' = revoke_all_user_tokens(current_user)
    /\ resp' = Reply("logout_all_devices", 200, "", [current_user |-> current_user], NoData)
    /\ UNCHANGED <<ledger, now, call, users, nextUser, otp_codes, outbox, tz>>

\* The TTL index on expires_at: the database deletes a document that has expired.
ExpireRefreshToken ==
    /\ \E k \in 1..Len(refresh_tokens) :
          /\ refresh_tokens[k].expires_at <= now
          /\ refresh_tokens' = Without(refresh_tokens, k)
    /\ UNCHANGED <<ledger, resp, now, call, users, nextUser, otp_codes, outbox, tz>>

\* The tokens a client may hold: what a login issues at some time, and an access
\* token sent in place of a refresh token.
TokenInputs ==
    {Jwt(u, t + REFRESH_TOKEN_EXPIRE_DAYS, "refresh") : u \in 1..MaxUsers, t \in 0..MaxTime}
        \cup {Jwt(1, 0, "access")}

TokenSignUps == {UserIn("An", "an@x.vn", "pw1"), UserIn("An", "binh@x.vn", "pw2")}
Logins == {LoginRequest(e, p) : e \in Emails, p \in Passwords}

\* The server runs in any of the time zones.
InitTokens == InitLedger /\ call = NoCall /\ InitCollections /\ tz \in TimeZones

SignUpTokens == \E data \in TokenSignUps : create_user(data)
LoginUser == \E data \in Logins : login_user(data)
RefreshAccessToken == \E refresh_token \in TokenInputs : refresh_access_token(refresh_token)
LogoutUser == \E refresh_token \in TokenInputs, current_user \in 1..MaxUsers : logout_user(refresh_token, current_user)
LogoutAllDevices == \E current_user \in 1..MaxUsers : logout_all_devices(current_user)

NextTokens ==
    \/ SignUpTokens \/ LoginUser \/ RefreshAccessToken \/ LogoutUser \/ LogoutAllDevices
    \/ Tick \/ ExpireRefreshToken
SpecTokens == InitTokens /\ [][NextTokens]_vars

\* ---------------------------------------------------------- one-time passwords
\* Emails handed to the background tasks in one behaviour.
MaxMails == 2

OtpCode(email, code) == [email |-> email, code |-> code]
ForgotPasswordRequest(email) == [email |-> email]
VerifyOtpRequest(email, code) == [email |-> email, code |-> code]

\* generate_otp_secret: random.randint(100000, 999999).
OtpSecrets == {111111, 222222}

\* OtpCode.find_one(OtpCode.email == email): position of the first record, 0 if none.
FindOtp(email) ==
    LET found == {k \in 1..Len(otp_codes) : otp_codes[k].email = email}
    IN  IF found = {} THEN 0 ELSE FirstIn(found)

\* A request that does not look for a stored code.
forgot_password_unlimited(data) ==
    /\ IF FindUser(data.email) = 0
       THEN /\ resp' = Reply("forgot_password", 404, "User with this email does not exist", data, NoData)
            /\ UNCHANGED <<otp_codes, outbox>>
       ELSE /\ Len(outbox) < MaxMails
            /\ \E otp_code \in OtpSecrets :
                  /\ otp_codes' = Append(otp_codes, OtpCode(data.email, ToString(otp_code)))
                  /\ outbox' = Append(outbox, [email_to |-> data.email, otp_code |-> otp_code])
            /\ resp' = Reply("forgot_password", 200, "", data, NoData)
    /\ UNCHANGED <<ledger, now, call, users, nextUser, refresh_tokens, tz>>

forgot_password(data) ==
    /\ IF FindUser(data.email) = 0
       THEN /\ resp' = Reply("forgot_password", 404, "User with this email does not exist", data, NoData)
            /\ UNCHANGED <<otp_codes, outbox>>
       ELSE IF FindOtp(data.email) # 0
       THEN /\ resp' = Reply("forgot_password", 429, "Please don't spam the email", data, NoData)
            /\ UNCHANGED <<otp_codes, outbox>>
       ELSE /\ Len(outbox) < MaxMails
            /\ \E otp_code \in OtpSecrets :
                  /\ otp_codes' = Append(otp_codes, OtpCode(data.email, ToString(otp_code)))
                  /\ outbox' = Append(outbox, [email_to |-> data.email, otp_code |-> otp_code])
            /\ resp' = Reply("forgot_password", 200, "", data, NoData)
    /\ UNCHANGED <<ledger, now, call, users, nextUser, refresh_tokens, tz>>

\* A verification that leaves the code stored.
verify_otp_keep(data) ==
    LET k == FindOtp(data.email)
        u == FindUser(data.email)
    IN  /\ IF k = 0 \/ otp_codes[k].code # data.code
           THEN /\ resp' = Reply("verify_otp", 400, "Invalid or expired OTP code", data, NoData)
                /\ UNCHANGED <<otp_codes, refresh_tokens>>
           ELSE IF u = 0
           THEN /\ resp' = Reply("verify_otp", 404, "User with this email does not exist", data, NoData)
                /\ UNCHANGED <<otp_codes, refresh_tokens>>
           ELSE /\ Len(refresh_tokens) < MaxTokens
                /\ UNCHANGED otp_codes
                /\ refresh_tokens' = create_refresh_token(u)
                /\ resp' = Reply("verify_otp", 200, "", data,
                                 [access_token |-> create_access_token(u),
                                  refresh_token |-> NewRefreshToken(u), token_type |-> "bearer"])
        /\ UNCHANGED <<ledger, now, call, users, nextUser, outbox, tz>>

verify_otp(data) ==
    LET k == FindOtp(data.email)
        u == FindUser(data.email)
    IN  /\ IF k = 0 \/ otp_codes[k].code # data.code
           THEN /\ resp' = Reply("verify_otp", 400, "Invalid or expired OTP code", data, NoData)
                /\ UNCHANGED <<otp_codes, refresh_tokens>>
           ELSE IF u = 0
           THEN /\ resp' = Reply("verify_otp", 404, "User with this email does not exist", data, NoData)
                /\ UNCHANGED <<otp_codes, refresh_tokens>>
           ELSE /\ Len(refresh_tokens) < MaxTokens
                /\ otp_codes' = Without(otp_codes, k)
                /\ refresh_tokens' = create_refresh_token(u)
                /\ resp' = Reply("verify_otp", 200, "", data,
                                 [access_token |-> create_access_token(u),
                                  refresh_token |-> NewRefreshToken(u), token_type |-> "bearer"])
        /\ UNCHANGED <<ledger, now, call, users, nextUser, outbox, tz>>

\* The TTL index on created_at: the database deletes a code ten minutes after it
\* was stored, which is less than a tick of the clock.
ExpireOtpCode ==
    /\ \E k \in 1..Len(otp_codes) : otp_codes' = Without(otp_codes, k)
    /\ UNCHANGED <<ledger, resp, now, call, users, nextUser, refresh_tokens, outbox, tz>>

ForgotPasswordRequests == {ForgotPasswordRequest(e) : e \in Emails}
VerifyOtpRequests == {VerifyOtpRequest(e, ToString(c)) : e \in Emails, c \in OtpSecrets}

ForgotPassword == \E data \in ForgotPasswordRequests : forgot_password(data)
VerifyOtp == \E data \in VerifyOtpRequests : verify_otp(data)

NextOtp == SignUpTokens \/ DeleteUser \/ ForgotPassword \/ VerifyOtp \/ ExpireOtpCode
SpecOtp == Init /\ [][NextOtp]_vars

\* ------------------------------------------------------------------ claims
\* Helpers of the statements below (stated from the claims, not from the code).
Taxed(amount, tax) == RDivInt(RMul(amount, RAdd(Int2R(100), tax)), 100)
ItemTotal(item) == RMul(Int2R(item.quantity), item.unit_price)
RawTotal(item) ==
    RMul(Int2R(IF "quantity" \in DOMAIN item THEN item.quantity ELSE 1),
         IF "unit_price" \in DOMAIN item THEN item.unit_price ELSE Zero)
SameIdentity(a, b) ==
    \/ a.user_id # NoneId /\ b.user_id # NoneId /\ a.user_id = b.user_id
    \/ a.user_id = NoneId /\ b.user_id = NoneId /\ a.name = b.name
CreatedBill == bills[resp.bill_id]
Created == resp.op = "create_bill" /\ resp.status = 201
Refused == resp.op = "create_bill" /\ resp.status # 201

\* C1: every stored bill, whatever its policy and tax, has
\* total_amount = round2(subtotal * (1 + tax/100)).
C1_TotalIsRoundedTaxedSubtotal ==
    \A id \in DOMAIN bills :
        bills[id].total_amount = Round2(Taxed(bills[id].subtotal, bills[id].tax))

\* A stored bill, edited since, whose tax is not zero and whose total was rounded.
C1_Witness ==
    \E id \in DOMAIN bills :
        /\ bills[id].title = "t2"
        /\ bills[id].tax # Zero
        /\ bills[id].total_amount # Taxed(bills[id].subtotal, bills[id].tax)
        /\ bills[id].total_amount # bills[id].subtotal

\* Sums over the stored items of a by_item bill.
SumItems(bill_items, F(_)) == RSum([i \in 1..Len(bill_items) |-> F(bill_items[i])])

\* The entries of an item's split_between that satisfy Same.
Occurrences(item, Same(_)) == {j \in 1..Len(item.split_between) : Same(item.split_between[j])}

ByItemBills == {id \in DOMAIN bills : bills[id].bill_split_type = BY_ITEM}

C3_OneEntryPerIdentity ==
    \A id \in ByItemBills :
        LET b == bills[id]
            n == Len(b.per_user_shares)
            Listed == UNION {{b.items[i].split_between[j] : j \in 1..Len(b.items[i].split_between)} :
                                i \in 1..Len(b.items)}
        IN  /\ \A p \in Listed :
                  Cardinality({k \in 1..n : SameIdentity(b.per_user_shares[k].user_name, p)}) = 1
            /\ \A k \in 1..n : \E p \in Listed : SameIdentity(b.per_user_shares[k].user_name, p)
            /\ \A k \in 1..n :
                  LET Is(p) == SameIdentity(p, b.per_user_shares[k].user_name)
                      Part(item) ==
                          RMul(ItemTotal(item),
                               Frac(Cardinality(Occurrences(item, Is)), Len(item.split_between)))
                  IN  b.per_user_shares[k].share = Round2(Taxed(SumItems(b.items, Part), b.tax))

EquallyBills == {id \in DOMAIN bills : bills[id].bill_split_type = EQUALLY}

\* C4: an equally bill on an event with n >= 1 roster entries has n share entries,
\* one per roster entry in roster order, each round2(subtotal * (1 + tax/100) / n),
\* whatever split_between or split_type the raw items carried.
C4_EqualShares ==
    /\ \A id \in EquallyBills :
          LET b == bills[id]
              roster == events[b.event_id].participants
              n == Len(roster)
          IN  /\ n >= 1
              /\ Len(b.per_user_shares) = n
              /\ \A k \in 1..n :
                    /\ b.per_user_shares[k].user_name = roster[k]
                    /\ b.per_user_shares[k].share = Round2(RDivInt(Taxed(b.subtotal, b.tax), n))
    /\ Created /\ resp.req.bill_split_type = EQUALLY =>
          /\ CreatedBill.subtotal = RSum([i \in 1..Len(resp.req.items) |-> RawTotal(resp.req.items[i])])
          /\ CreatedBill.tax = resp.req.tax
          /\ CreatedBill.event_id = resp.req.event_id
    /\ Refused /\ resp.req.bill_split_type = EQUALLY /\ resp.req.event_id \in DOMAIN events
               /\ resp.req.current_user \in UserIds =>
          Len(events[resp.req.event_id].participants) = 0

\* An equally bill just created from an item carrying split_between, on a roster of
\* three, whose shares do not add up to the total.
C4_Witness ==
    /\ Created
    /\ resp.req.bill_split_type = EQUALLY
    /\ \E i \in 1..Len(resp.req.items) : "split_between" \in DOMAIN resp.req.items[i]
    /\ Len(CreatedBill.per_user_shares) = 3
    /\ RSum([k \in 1..3 |-> CreatedBill.per_user_shares[k].share]) # CreatedBill.total_amount

\* The manual request just handled, and what the claims say of it.
ManualHandled == resp.op = "create_bill" /\ resp.req.bill_split_type = MANUAL
RawSubtotal(req) == RSum([i \in 1..Len(req.items) |-> RawTotal(req.items[i])])
Supplied(req) == IF req.manual_shares = NoShares THEN <<>> ELSE req.manual_shares.list
SuppliedSum(req) == RSum([k \in 1..Len(Supplied(req)) |-> Supplied(req)[k].amount])
WithinTolerance(req) ==
    LET diff == RSub(SuppliedSum(req), Taxed(RawSubtotal(req), req.tax))
    IN  100 * Abs(diff.num) <= diff.den

ManualBills == {id \in DOMAIN bills : bills[id].bill_split_type = MANUAL}

\* C6: every stored manual bill has |sum of per_user_shares[*].share - total_amount|
\* <= 0.01, both sides as stored.
C6_StoredSharesSumToTotal ==
    \A id \in ManualBills :
        LET b == bills[id]
            diff == RSub(RSum([k \in 1..Len(b.per_user_shares) |-> b.per_user_shares[k].share]),
                         b.total_amount)
        IN  100 * Abs(diff.num) <= diff.den

RECURSIVE NonPayerShares(_, _)
NonPayerShares(per_user_shares, paid_by) ==
    IF per_user_shares = <<>> THEN <<>>
    ELSE IF SameIdentity(Head(per_user_shares).user_name, paid_by)
    THEN NonPayerShares(Tail(per_user_shares), paid_by)
    ELSE <<Head(per_user_shares)>> \o NonPayerShares(Tail(per_user_shares), paid_by)

\* C8: for any bill the balances are, in per_user_shares order, one record
\* {debtor = share participant, creditor = paid_by, amount_owed = round2(share)} per
\* share whose participant is not the same identity as paid_by, and nothing else.
C8_BalancesAreNonPayerShares ==
    resp.op = "get_bill_balances" /\ resp.bill_id \in DOMAIN bills =>
        /\ resp.status = 200
        /\ LET b == bills[resp.bill_id]
               owed == NonPayerShares(b.per_user_shares, b.paid_by)
           IN  /\ Len(resp.balances) = Len(owed)
               /\ \A k \in 1..Len(owed) :
                     /\ resp.balances[k].debtor = owed[k].user_name
                     /\ resp.balances[k].creditor = b.paid_by
                     /\ resp.balances[k].amount_owed = Round2(owed[k].share)

\* The balances of the bill create_bill has just stored.
CreatedBalances == _calculate_balances_for_bill(CreatedBill)

C10_CreateAllOrNothing ==
    [][resp'.op = "create_bill" =>
          IF resp'.status = 201
          THEN /\ resp'.bill_id \notin DOMAIN bills
               /\ DOMAIN bills' = DOMAIN bills \cup {resp'.bill_id}
               /\ \A id \in DOMAIN bills : bills'[id] = bills[id]
          ELSE bills' = bills]_vars

\* A refused manual request that found a bill in the store.
C10_Witness ==
    /\ Refused
    /\ resp.req.bill_split_type = MANUAL
    /\ resp.status = 400
    /\ DOMAIN bills # {}

\* C11: once a bill is stored no step changes its items, subtotal, tax,
\* total_amount, paid_by, per_user_shares, bill_split_type, owner_id, event_id or
\* created_at; a bill changes only by a successful update_bill of it, disappears
\* only by a successful delete_bill of it, and its id is not handed out again.
C11_FinancialFieldsFrozen ==
    [][/\ \A id \in DOMAIN bills \cap DOMAIN bills' :
             /\ \A f \in {"items", "subtotal", "tax", "total_amount", "paid_by", "per_user_shares",
                          "bill_split_type", "owner_id", "event_id", "created_at"} :
                    bills'[id][f] = bills[id][f]
             /\ bills'[id] # bills[id] =>
                    resp'.op = "update_bill" /\ resp'.status = 200 /\ resp'.bill_id = id
       /\ \A id \in DOMAIN bills \ DOMAIN bills' :
             resp'.op = "delete_bill" /\ resp'.status = 200 /\ resp'.bill_id = id
       /\ \A id \in DOMAIN bills' \ DOMAIN bills : id >= nextId]_vars

\* A bill edited some time after its creation, in a store that has lost a bill.
C11_Witness ==
    /\ resp.op = "update_bill"
    /\ resp.status = 200
    /\ resp.bill_id \in DOMAIN bills
    /\ bills[resp.bill_id].title = "t2"
    /\ bills[resp.bill_id].updated_at > bills[resp.bill_id].created_at
    /\ \E id \in 1..(nextId - 1) : id \notin DOMAIN bills

\* C12: an update_bill or delete_bill sent by a caller who is not the bill's owner
\* fails with status 403 and leaves the bill stored and unchanged; so whenever a
\* stored bill changes or disappears, the step is a successful update_bill or
\* delete_bill of that bill sent by its owner.
C12_OnlyOwnerModifies ==
    [][/\ (/\ resp'.op \in {"update_bill", "delete_bill"}
           /\ resp'.bill_id \in DOMAIN bills
           /\ resp'.req.current_user # bills[resp'.bill_id].owner_id)
          => /\ resp'.status = 403
             /\ resp'.detail.kind = "owner"
             /\ bills' = bills
       /\ \A id \in DOMAIN bills :
             (id \notin DOMAIN bills' \/ bills'[id] # bills[id])
             => /\ resp'.op \in {"update_bill", "delete_bill"}
                /\ resp'.status = 200
                /\ resp'.bill_id = id
                /\ resp'.req.current_user = bills[id].owner_id]_vars

\* A refused edit of an edited bill by somebody else than its owner.
C12_Witness ==
    /\ resp.op \in {"update_bill", "delete_bill"}
    /\ resp.status = 403
    /\ resp.bill_id \in DOMAIN bills
    /\ resp.req.current_user # bills[resp.bill_id].owner_id
    /\ bills[resp.bill_id].title = "t2"

\* The by_item request just handled, and what C13 says of its raw items.
ByItemHandled == resp.op = "create_bill" /\ resp.req.bill_split_type = BY_ITEM
LacksBetween(item) == "split_between" \notin DOMAIN item \/ item.split_between = <<>>
LacksSplit(item) == LacksBetween(item) \/ "split_type" \notin DOMAIN item
Unsupported(item) == ~LacksSplit(item) /\ item.split_type \notin {"everyone", "custom"}
FirstOf(S) == CHOOSE i \in S : \A j \in S : i <= j
Offending(req) == {i \in 1..Len(req.items) : LacksSplit(req.items[i])}
Stopping(req) == {i \in 1..Len(req.items) : LacksSplit(req.items[i]) \/ Unsupported(req.items[i])}
NamedError(item) ==
    [kind |-> IF LacksBetween(item) THEN "split_between" ELSE "split_type", item |-> item.name]

EquallyHandled == resp.op = "create_bill" /\ resp.req.bill_split_type = EQUALLY

\* C14: an equally create_bill on an event whose roster is empty fails with a
\* validation error (status 400) and stores no bill, whatever the items and tax.
C14_EmptyRosterRefused ==
    (/\ EquallyHandled
     /\ resp.req.event_id \in DOMAIN events
     /\ events[resp.req.event_id].participants = <<>>)
    => /\ resp.status = 400
       /\ (resp.req.current_user \in UserIds => resp.detail.kind = "no_participants")
       /\ DOMAIN bills = {}

\* A taxed equally request of two items refused on the event without participants.
C14_Witness ==
    /\ EquallyHandled
    /\ resp.req.event_id = "e2"
    /\ events["e2"].participants = <<>>
    /\ Len(resp.req.items) = 2
    /\ resp.req.tax # Zero
    /\ resp.status = 400
    /\ DOMAIN bills = {}

\* C15: the stored paid_by is the first roster participant, in roster order, whose
\* user_id as a string or whose name equals the request's paid_by string; without
\* such a participant it is a new guest of that name, with no user_id.
C15_PaidByIsFirstRosterMatch ==
    Created =>
        LET roster == events[resp.req.event_id].participants
            Match(k) == \/ (roster[k].user_id # "None" /\ roster[k].user_id = resp.req.paid_by)
                        \/ roster[k].name = resp.req.paid_by
        IN  IF \E k \in 1..Len(roster) : Match(k)
            THEN \E k \in 1..Len(roster) :
                    /\ Match(k)
                    /\ \A j \in 1..(k - 1) : ~Match(j)
                    /\ CreatedBill.paid_by = roster[k]
            ELSE CreatedBill.paid_by =
                    [name |-> resp.req.paid_by, user_id |-> "None", is_guest |-> TRUE]

\* A bill whose payer string matches a guest by name and, later in the roster, a
\* registered participant by user id: the guest is stored.
C15_Witness ==
    /\ Created
    /\ resp.req.event_id = "e5"
    /\ resp.req.paid_by = "u2"
    /\ CreatedBill.paid_by = [name |-> "u2", user_id |-> "None", is_guest |-> TRUE]
    /\ \E k \in 2..Len(events["e5"].participants) :
          events["e5"].participants[k].user_id = "u2"

\* What each policy makes of the request just handled.
UnderPolicy(t) == CreateOutcome([resp.req EXCEPT !.bill_split_type = t])

\* C16: the stored subtotal of a created bill is the exact, unrounded sum over the
\* raw items of quantity * unit_price (quantity 1 and unit_price 0 when missing),
\* and every policy that accepts the same request computes the same subtotal and
\* total_amount.
C16_SubtotalIsExactSum ==
    Created =>
        /\ CreatedBill.subtotal = RawSubtotal(resp.req)
        /\ \A t \in {"by_item", "equally", "manual"} :
              UnderPolicy(t).status = 200 =>
                  /\ UnderPolicy(t).subtotal = CreatedBill.subtotal
                  /\ UnderPolicy(t).total_amount = CreatedBill.total_amount

\* A bill of an item without quantity and an item of a subtotal with three
\* decimals, created from a request that all three policies accept.
C16_Witness ==
    /\ Created
    /\ \A t \in {"by_item", "equally", "manual"} : UnderPolicy(t).status = 200
    /\ \E i \in 1..Len(resp.req.items) : "quantity" \notin DOMAIN resp.req.items[i]
    /\ CreatedBill.subtotal # Round2(CreatedBill.subtotal)
    /\ resp.req.tax # Zero

\* An amount of at most two decimals.
IsRounded(amount) == amount = Round2(amount)
RoundedSum(req) == RSum([k \in 1..Len(Supplied(req)) |-> Round2(Supplied(req)[k].amount)])
RoundedWithinTolerance(req) ==
    LET diff == RSub(RoundedSum(req), Round2(Taxed(RawSubtotal(req), req.tax)))
    IN  100 * Abs(diff.num) <= diff.den

\* C17: every monetary value stored in a bill (subtotal, total_amount, every item's
\* total_price, every share) is rounded to 2 decimals, and the manual policy accepts
\* a request according to the tolerance comparison made on the rounded values.
C17_EverythingStoredIsRounded ==
    /\ \A id \in DOMAIN bills :
          /\ IsRounded(bills[id].subtotal)
          /\ IsRounded(bills[id].total_amount)
          /\ \A i \in 1..Len(bills[id].items) : IsRounded(bills[id].items[i].total_price)
          /\ \A k \in 1..Len(bills[id].per_user_shares) : IsRounded(bills[id].per_user_shares[k].share)
    /\ (/\ ManualHandled
        /\ resp.req.event_id \in DOMAIN events
        /\ resp.req.current_user \in UserIds
        /\ Len(Supplied(resp.req)) > 0)
       => (Created <=> RoundedWithinTolerance(resp.req))

DerivedBills == {id \in DOMAIN bills : bills[id].bill_split_type \in {"by_item", "equally"}}
SharesSum(bill) == RSum([k \in 1..Len(bill.per_user_shares) |-> bill.per_user_shares[k].share])

\* C18: in every stored by_item or equally bill the shares add up to total_amount
\* within 0.01 per share entry, |sum - total_amount| <= 0.01 * number of entries;
\* nobody is given the remainder: the entries of an equally bill are all the same
\* amount.
C18_DriftWithinOneCentPerShare ==
    \A id \in DerivedBills :
        LET b == bills[id]
            diff == RSub(SharesSum(b), b.total_amount)
        IN  /\ 100 * Abs(diff.num) <= Len(b.per_user_shares) * diff.den
            /\ b.bill_split_type = "equally" =>
                  \A k \in 1..Len(b.per_user_shares) :
                      b.per_user_shares[k].share = b.per_user_shares[1].share

\* A by_item bill of several shares that do not add up to its total.
C18_Witness ==
    \E id \in DerivedBills :
        /\ bills[id].bill_split_type = "by_item"
        /\ Len(bills[id].per_user_shares) >= 2
        /\ SharesSum(bills[id]) # bills[id].total_amount

\* C19: create_bill, update_bill and delete_bill leave every Event document as it
\* was (participants, total_amount, bills list); deleting a bill recomputes nothing
\* on the event that holds it.
C19_BillRequestsLeaveEvents ==
    [][resp'.op \in {"create_bill", "update_bill", "delete_bill"} => events' = events]_vars

\* A bill deleted from the store while an event still lists it.
C19_Witness ==
    /\ resp.op = "delete_bill"
    /\ resp.status = 200
    /\ resp.bill_id \notin DOMAIN bills
    /\ \E e \in DOMAIN events : \E k \in 1..Len(events[e].bills) :
          events[e].bills[k].id = resp.bill_id

\* What the request of task t gives when it runs alone against the events.
Alone(t) == CreateOutcome(tasks[t].payload)
Finished == {t \in DOMAIN tasks : tasks[t].pc = "done"}
Stored == {t \in Finished : tasks[t].status = 201}

\* The finished tasks have the responses and the bills of their own requests.
C20_EachTaskItsOwnBill ==
    /\ \A t \in Finished :
          IF Alone(t).status = 200
          THEN /\ tasks[t].status = 201
               /\ tasks[t].bill_id \in DOMAIN bills
               /\ [bills[tasks[t].bill_id] EXCEPT !.id = 0] = NewBill(tasks[t].payload, Alone(t), 0)
          ELSE tasks[t].status = Alone(t).status
    /\ \A t \in Stored, u \in Stored : t # u => tasks[t].bill_id # tasks[u].bill_id
    /\ DOMAIN bills = {tasks[t].bill_id : t \in Stored}

Applied == "result" \in DOMAIN call
HasUserId(p) == p.user_id # NoneId

\* C25: _is_same_participant(a, b) is true exactly when _participant_key(a) equals
\* _participant_key(b) and a and b both have a user id or both lack one; it is
\* reflexive and symmetric, and a registered participant is never the same as a
\* guest, whatever their names.
C25_SameIdentityIsKeyAndKind ==
    Applied =>
        LET a == call.args[1]
            b == call.args[2]
        IN  /\ call.result = (/\ _participant_key(a) = _participant_key(b)
                              /\ HasUserId(a) = HasUserId(b))
            /\ a = b => call.result
            /\ call.result = _is_same_participant(b, a)
            /\ HasUserId(a) # HasUserId(b) => ~call.result

\* A registered participant and a guest whose name spells the other's user id: one
\* key, two identities.
C25_Witness ==
    /\ Applied
    /\ HasUserId(call.args[1]) /\ ~HasUserId(call.args[2])
    /\ _participant_key(call.args[1]) = _participant_key(call.args[2])
    /\ ~call.result

\* C26: an update_bill by the owner that supplies title or note sets updated_at to
\* the time of the edit, which is not earlier than created_at nor than the previous
\* updated_at; an update_bill that supplies neither leaves the stored bill as it is,
\* updated_at included; created_at never changes once the bill is stored.
C26_UpdatedAtFollowsEdits ==
    [][/\ resp'.op = "update_bill" /\ resp'.bill_id \in DOMAIN bills =>
             \A payload \in UpdatePayloads :
                update_bill(resp'.bill_id, payload, bills[resp'.bill_id].owner_id) =>
                   IF DOMAIN payload = {}
                   THEN bills' = bills
                   ELSE /\ bills'[resp'.bill_id].updated_at = now
                        /\ bills'[resp'.bill_id].updated_at >= bills[resp'.bill_id].created_at
                        /\ bills'[resp'.bill_id].updated_at >= bills[resp'.bill_id].updated_at
       /\ \A id \in DOMAIN bills \cap DOMAIN bills' : bills'[id].created_at = bills[id].created_at
       /\ \A id \in DOMAIN bills' \ DOMAIN bills :
             bills'[id].created_at = now /\ bills'[id].updated_at = now]_vars

\* A bill given a title and a note after the clock has moved on from its creation.
C26_Witness ==
    /\ resp.op = "update_bill"
    /\ resp.status = 200
    /\ resp.bill_id \in DOMAIN bills
    /\ bills[resp.bill_id].note = "n2"
    /\ bills[resp.bill_id].created_at = 0
    /\ bills[resp.bill_id].updated_at = now
    /\ now > 0

\* The places, as <<event id, position>>, where the events hold a bill of that id.
Holders(bill_id) ==
    {<<e, k>> \in (DOMAIN events) \X (1..(MaxBills + MaxAdds)) :
        k <= Len(events[e].bills) /\ events[e].bills[k].id = bill_id}

\* C27: however add_bill_to_event requests follow or interleave, each bill id occurs
\* at most once across the bills lists of all events.
C27_BillInAtMostOneEvent ==
    \A bill_id \in 1..MaxBills : Cardinality(Holders(bill_id)) <= 1

\* C28: every bill held in an event's bills list belongs to that event (its
\* event_id is the event's id) and is stored in the bills collection with the same
\* content.
C28_HeldBillsAreStoredAndOwned ==
    \A e \in DOMAIN events : \A k \in 1..Len(events[e].bills) :
        LET held == events[e].bills[k]
        IN  /\ held.event_id = e
            /\ held.id \in DOMAIN bills
            /\ bills[held.id] = held

\* The stored users of an email.
UsersOf(email) == {u \in DOMAIN users : users[u].email = email}

\* C21: create_user with an email of a stored user fails with status 400 (already
\* exists) and stores no user; with an unused email it stores exactly one user, of
\* that email, and leaves the others as they were.
C21_SignupRefusesUsedEmail ==
    [][resp'.op = "create_user" =>
          IF UsersOf(resp'.req.email) # {}
          THEN /\ resp'.status = 400
               /\ resp'.detail = "User with this email already exists"
               /\ users' = users
          ELSE /\ resp'.status = 201
               /\ Cardinality(DOMAIN users' \ DOMAIN users) = 1
               /\ \A u \in DOMAIN users' \ DOMAIN users :
                     users'[u].email = resp'.req.email /\ resp'.data.id = u
               /\ \A u \in DOMAIN users : u \in DOMAIN users' /\ users'[u] = users[u]]_vars

\* A signup refused because the one stored user has its email.
C21_Witness ==
    /\ resp.op = "create_user"
    /\ resp.status = 400
    /\ UsersOf(resp.req.email) # {}
    /\ Cardinality(DOMAIN users) = 1
    /\ nextUser = 2

\* C29: no two stored users have the same email.
C29_EmailsAreUnique ==
    \A u \in DOMAIN users, w \in DOMAIN users : users[u].email = users[w].email => u = w

\* C22: login_user with an email of no stored user, or with a password that does
\* not verify against the stored hash, fails with status 401 and the one detail
\* 'Invalid email or password', and stores no refresh token; a login that succeeds
\* returns an access token of the user and stores one refresh token, the one it
\* returns, for that user.
C22_LoginFailsAlike ==
    [][\A data \in Logins : login_user(data) =>
          LET matching == {u \in UsersOf(data.email) : verify_password(data.password, users[u].password)}
          IN  IF matching = {}
              THEN /\ resp'.status = 401
                   /\ resp'.detail = "Invalid email or password"
                   /\ resp'.data = NoData
                   /\ refresh_tokens' = refresh_tokens
              ELSE /\ resp'.status = 200
                   /\ resp'.data.id \in matching
                   /\ resp'.data.access_token.sub = resp'.data.id
                   /\ resp'.data.access_token.type = "access"
                   /\ Len(refresh_tokens') = Len(refresh_tokens) + 1
                   /\ SubSeq(refresh_tokens', 1, Len(refresh_tokens)) = refresh_tokens
                   /\ refresh_tokens'[Len(refresh_tokens')].token = resp'.data.refresh_token
                   /\ refresh_tokens'[Len(refresh_tokens')].user_id = resp'.data.id]_vars

\* A wrong password for a stored user, refused after that user has logged in.
C22_Witness ==
    /\ resp.op = "login_user"
    /\ resp.status = 401
    /\ UsersOf(resp.req.email) # {}
    /\ \E k \in 1..Len(refresh_tokens) : refresh_tokens[k].user_id \in UsersOf(resp.req.email)

\* The stored documents of a token.
DocsOf(token) == {k \in 1..Len(refresh_tokens) : refresh_tokens[k].token = token}

\* C30: a refresh_access_token that follows the logout_user of its token, or the
\* logout_all_devices of the token's user, fails with status 401 and issues no
\* access token; a refresh_access_token succeeds only for a token that is stored
\* and has not expired, returns that same token and stores nothing.
C30_RevokedTokenIsRefused ==
    [][\A refresh_token \in TokenInputs : refresh_access_token(refresh_token) =>
          /\ resp.op = "logout_user" /\ resp.req.refresh_token = refresh_token =>
                resp'.status = 401 /\ resp'.data = NoData
          /\ resp.op = "logout_all_devices" /\ resp.req.current_user = refresh_token.sub =>
                resp'.status = 401 /\ resp'.data = NoData
          /\ resp'.status = 200 =>
                /\ DocsOf(refresh_token) # {}
                /\ ~(refresh_token.exp < now)
                /\ resp'.data.refresh_token = refresh_token
                /\ refresh_tokens' = refresh_tokens]_vars

\* The stored codes of an email and the emails handed over for it.
OtpsOf(email) == {k \in 1..Len(otp_codes) : otp_codes[k].email = email}

\* C23: forgot_password stores a new code and hands over exactly one email if and
\* only if a user of that email is stored and no code of that email is; for an
\* unknown email it fails with 404, and for a known email that has a code with
\* 429, storing nothing and handing over nothing; so no email ever has two codes.
C23_OneCodePerEmail ==
    [][/\ \A data \in ForgotPasswordRequests : forgot_password(data) =>
             IF UsersOf(data.email) # {} /\ OtpsOf(data.email) = {}
             THEN /\ resp'.status = 200
                  /\ Len(otp_codes') = Len(otp_codes) + 1
                  /\ SubSeq(otp_codes', 1, Len(otp_codes)) = otp_codes
                  /\ otp_codes'[Len(otp_codes')].email = data.email
                  /\ Len(outbox') = Len(outbox) + 1
                  /\ SubSeq(outbox', 1, Len(outbox)) = outbox
                  /\ outbox'[Len(outbox')].email_to = data.email
                  /\ ToString(outbox'[Len(outbox')].otp_code) = otp_codes'[Len(otp_codes')].code
             ELSE /\ otp_codes' = otp_codes
                  /\ outbox' = outbox
                  /\ resp'.status = IF UsersOf(data.email) = {} THEN 404 ELSE 429
       /\ \A e \in Emails : Cardinality({k \in 1..Len(otp_codes') : otp_codes'[k].email = e}) <= 1]_vars

\* A second request for an email whose code is still stored, refused.
C23_Witness ==
    /\ resp.op = "forgot_password"
    /\ resp.status = 429
    /\ OtpsOf(resp.req.email) # {}
    /\ \E m \in 1..Len(outbox) : outbox[m].email_to = resp.req.email
    /\ Len(outbox) = 1

\* C24: verify_otp succeeds only when a code of the email is stored, is exactly the
\* submitted code, and a user of the email is stored; a success deletes the code
\* and returns tokens of that user, so the same request sent again fails with 400;
\* a missing or different code fails with 400 and an unknown user with 404, and
\* neither deletes a code nor issues a token.
C24_CodeIsSingleUse ==
    [][\A data \in VerifyOtpRequests : verify_otp(data) =>
          LET exact == {k \in OtpsOf(data.email) : otp_codes[k].code = data.code}
          IN  /\ IF exact = {}
                 THEN /\ resp'.status = 400
                      /\ resp'.data = NoData
                      /\ otp_codes' = otp_codes
                      /\ refresh_tokens' = refresh_tokens
                 ELSE IF UsersOf(data.email) = {}
                 THEN /\ resp'.status = 404
                      /\ resp'.data = NoData
                      /\ otp_codes' = otp_codes
                      /\ refresh_tokens' = refresh_tokens
                 ELSE /\ resp'.status = 200
                      /\ \A k \in 1..Len(otp_codes') : otp_codes'[k].email # data.email
                      /\ Len(otp_codes') = Len(otp_codes) - 1
                      /\ resp'.data.access_token.sub \in UsersOf(data.email)
                      /\ refresh_tokens'[Len(refresh_tokens')].token = resp'.data.refresh_token
                      /\ refresh_tokens'[Len(refresh_tokens')].user_id \in UsersOf(data.email)
              /\ resp.op = "verify_otp" /\ resp.status = 200 /\ resp.req = data => resp'.status = 400]_vars

\* The code that was mailed and has been used, sent again and refused.
C24_Witness ==
    /\ resp.op = "verify_otp"
    /\ resp.status = 400
    /\ OtpsOf(resp.req.email) = {}
    /\ \E m \in 1..Len(outbox) :
          outbox[m].email_to = resp.req.email /\ ToString(outbox[m].otp_code) = resp.req.code
    /\ \E k \in 1..Len(refresh_tokens) : refresh_tokens[k].user_id \in UsersOf(resp.req.email)
    /\ Len(outbox) = 1

====
